---- MODULE Spec2Model ----
(***************************************************************************)
(* Model of the call-analytics aggregation of the voice-AI dashboard:      *)
(* fetchCallAnalytics (services/apiService) fetches the call records of a  *)
(* date window, groups them by UTC calendar day, sums calls, minutes and   *)
(* cost per day, recomputes the average duration and returns the buckets   *)
(* in chronological order.  Three further specifications cover the code    *)
(* around it: SpecCalls (several invocations of fetchCallAnalytics at      *)
(* once), SpecDash (the Dashboard page that calls it) and SpecFmt          *)
(* (formatDuration).                                                       *)
(*                                                                         *)
(* Numbers: JavaScript numbers are modelled as exact rationals (a reduced  *)
(* fraction [num, den], den > 0).  Instants are seconds since the epoch    *)
(* (the code uses milliseconds; every instant of the model is a whole      *)
(* second).  A date string YYYY-MM-DD is the triple <<y, m, d>>.           *)
(***************************************************************************)
EXTENDS Integers, Sequences, FiniteSets

VARIABLES phase, startDate, endDate, request, response, callRecords, idx, analytics, result

\* One invocation of fetchCallAnalytics: its arguments and locals.
aggVars == <<phase, startDate, endDate, request, response, callRecords, idx, analytics, result>>

\* invocations: the locals of each of several invocations running at once.
VARIABLES invocations

invocationVars == <<invocations>>

\* seconds, formatted: the argument of formatDuration and the string it returns.
VARIABLES seconds, formatted

fmtVars == <<seconds, formatted>>

\* The Dashboard page: the clock, the state of the component (with startDate
\* and endDate above, which it passes to fetchCallAnalytics), the fetches
\* its effect has started, and what the last render showed.
VARIABLES now, timeRange, analyticsData, isLoading, error, fetches, summary, chartData

dashVars == <<now, timeRange, analyticsData, isLoading, error, fetches, summary, chartData>>

\* The locals of the single invocation, without its arguments.
aggLocals == <<phase, request, response, callRecords, idx, analytics, result>>

\* What a step of the single invocation leaves alone.
outsideAgg == <<invocationVars, fmtVars, dashVars>>

vars == <<aggVars, invocationVars, fmtVars, dashVars>>

\* ------------------------------------------------------------------ bounds
\* Longest record list the backend returns.
MaxRecords == 3

\* Invocations of fetchCallAnalytics running at once, and the longest record
\* list one of them is given.
NumCalls == 2

MaxCallRecords == 2

\* Largest argument of formatDuration.
MaxSeconds == 36610

\* Fetches the Dashboard's effect starts in one run, and the viewer's offset
\* from UTC in hours.
MaxFetches == 2

ZoneHours == 1

\* ------------------------------------------------------------- JS numbers
Abs(n) == IF n < 0 THEN -n ELSE n

RECURSIVE Gcd(_, _)
Gcd(a, b) == IF b = 0 THEN a ELSE Gcd(b, a % b)

\* The rational n/d (d # 0) as a reduced fraction with a positive denominator.
Rat(n, d) ==
  LET g == Gcd(Abs(n), Abs(d))
      s == IF d < 0 THEN -1 ELSE 1
  IN  [num |-> (s * n) \div g, den |-> (s * d) \div g]

Zero == Rat(0, 1)

RatAdd(a, b) == Rat(a.num * b.den + b.num * a.den, a.den * b.den)

\* a / n for a rational a and an integer n # 0
RatDivInt(a, n) == Rat(a.num, a.den * n)

\* --------------------------------------------------------------- JS Date
SecondsPerDay == 86400

\* Days since 1970-01-01 of the proleptic Gregorian date y-m-d.
DaysFromCivil(y, m, d) ==
  LET yy  == IF m <= 2 THEN y - 1 ELSE y
      era == yy \div 400
      yoe == yy - era * 400
      mp  == IF m > 2 THEN m - 3 ELSE m + 9
      doy == (153 * mp + 2) \div 5 + d - 1
      doe == yoe * 365 + yoe \div 4 - yoe \div 100 + doy
  IN  era * 146097 + doe - 719468

\* The Gregorian date <<y, m, d>> of a day number.
CivilFromDays(z0) ==
  LET z   == z0 + 719468
      era == z \div 146097
      doe == z - era * 146097
      yoe == (doe - doe \div 1460 + doe \div 36524 - doe \div 146096) \div 365
      doy == doe - (365 * yoe + yoe \div 4 - yoe \div 100)
      mp  == (5 * doy + 2) \div 153
      d   == doy - (153 * mp + 2) \div 5 + 1
      m   == IF mp < 10 THEN mp + 3 ELSE mp - 9
      y   == yoe + era * 400 + (IF m <= 2 THEN 1 ELSE 0)
  IN  <<y, m, d>>

\* A timestamp string "YYYY-MM-DDThh:00:00+tz:00": the wall-clock date and
\* hour it spells and its offset from UTC in hours; `garbage` marks a string
\* that is no timestamp.
Timestamp(y, m, d, h, tz) == [garbage |-> FALSE, date |-> <<y, m, d>>, hour |-> h, tz |-> tz]

Garbage == [garbage |-> TRUE, date |-> <<0, 0, 0>>, hour |-> 0, tz |-> 0]

\* new Date(s) is Invalid Date: s is no timestamp.
InvalidDate(s) == s.garbage

\* new Date(s) for a timestamp s: the instant the string denotes.
NewDate(s) ==
  DaysFromCivil(s.date[1], s.date[2], s.date[3]) * SecondsPerDay
    + (s.hour - s.tz) * 3600

\* Variant: the date and time are those of the viewer's zone (UTC+1), as the
\* local getters getFullYear/getMonth/getDate would give them.
ToISOString_LocalZone(t) ==
  [date |-> CivilFromDays((t + 3600) \div SecondsPerDay), time |-> (t + 3600) % SecondsPerDay]

\* Date.prototype.toISOString of a valid instant: the UTC date before the
\* 'T' and the UTC time of day after it.
ToISOString(t) == [date |-> CivilFromDays(t \div SecondsPerDay), time |-> t % SecondsPerDay]

\* iso.split('T')[0]
DatePart(iso) == iso.date

\* new Date("YYYY-MM-DD").getTime(): a date-only string is UTC midnight.
DateTime(dateStr) == DaysFromCivil(dateStr[1], dateStr[2], dateStr[3]) * SecondsPerDay

\* ------------------------------------------------------------ CallRecord
\* A cost the backend left out (null / undefined): not a number.
Null == [num |-> 0, den |-> 0]

CallRecord(created_at, duration, cost) ==
  [created_at |-> created_at, duration |-> duration, cost |-> cost]

\* The records the backend may return.  The first three are the records of
\* the specification's Scenario A; the others carry a timestamp whose local
\* day differs from its UTC day, a missing cost, a day of the previous year,
\* a negative duration on a leap day, and an unparseable timestamp.
RecA1 == CallRecord(Timestamp(2024, 1, 1, 10, 0), 120, Rat(3, 2))
RecA2 == CallRecord(Timestamp(2024, 1, 1, 15, 0), 180, Rat(2, 1))
RecA3 == CallRecord(Timestamp(2024, 1, 2, 9, 0), 60, Rat(1, 2))
RecTz == CallRecord(Timestamp(2024, 1, 1, 23, -2), 30, Null)
RecOld == CallRecord(Timestamp(2023, 12, 31, 22, 0), 0, Zero)
RecLeap == CallRecord(Timestamp(2024, 3, 1, 0, 1), -60, Rat(1, 4))
RecBad == CallRecord(Garbage, 60, Rat(1, 1))

RecordPool == {RecA1, RecA2, RecA3, RecTz, RecOld, RecLeap, RecBad}

RecordLists == UNION {[1..n -> RecordPool] : n \in 0..MaxRecords}

\* The outcome of the GET: still pending, failed, or a response whose data
\* is a list of records or nothing at all (`empty`).
Response(status, empty, records) == [status |-> status, empty |-> empty, records |-> records]

Pending == Response("pending", TRUE, <<>>)

Failed == Response("error", TRUE, <<>>)

ResponseData ==
  {Response("ok", FALSE, l) : l \in RecordLists} \cup {Response("ok", TRUE, <<>>)}

\* The date windows the caller asks for: January 2024's first two days, and
\* the single day 2024-01-02.
Windows ==
  { <<DateTime(<<2024, 1, 1>>), DateTime(<<2024, 1, 3>>) - 1>>,
    <<DateTime(<<2024, 1, 2>>), DateTime(<<2024, 1, 3>>) - 1>> }

\* --------------------------------------------------------- CallAnalytics
CallAnalytics(date, calls, minutes, cost, avgDuration) ==
  [date |-> date, calls |-> calls, minutes |-> minutes, cost |-> cost,
   avgDuration |-> avgDuration]

\* Variant: the first ten characters of created_at, without conversion to UTC.
DateStr_LocalDay(item) == item.created_at.date

\* const dateStr = new Date(item.created_at).toISOString().split('T')[0]
DateStr(item) == DatePart(ToISOString(NewDate(item.created_at)))

\* toISOString throws a RangeError on Invalid Date.
Throws(item) == InvalidDate(item.created_at)

\* Variant: the duration is kept in seconds, the division by 60 forgotten.
DurationMinutes_Seconds(item) == Rat(item.duration, 1)

\* Variant: whole minutes only, Math.floor(item.duration / 60).
DurationMinutes_Floor(item) == Rat(item.duration \div 60, 1)

\* const durationMinutes = item.duration / 60
DurationMinutes(item) == Rat(item.duration, 60)

\* Variant: the cost is estimated from the duration at one dollar a minute
\* instead of being read from the record.
CallCost_Estimated(item) == Rat(item.duration, 60)

\* const callCost = item.cost || 0
CallCost(item) == IF item.cost = Null THEN Zero ELSE item.cost

\* analytics[dateStr]: the position of the entry keyed dateStr, 0 if none.
\* The map is kept as the sequence of its entries in insertion order, which
\* is the order Object.values returns them in.
Lookup(map, dateStr) ==
  IF \E i \in 1..Len(map) : map[i].date = dateStr
  THEN CHOOSE i \in 1..Len(map) : map[i].date = dateStr
  ELSE 0

\* Variant: a new entry starts at calls: 1 and is then incremented again.
Initialize_CountsFirst(map, dateStr) ==
  IF Lookup(map, dateStr) = 0
  THEN Append(map, CallAnalytics(dateStr, 1, Zero, Zero, Zero))
  ELSE map

\* if (!analytics[dateStr]) analytics[dateStr] = {date, 0, 0, 0, 0}
Initialize(map, dateStr) ==
  IF Lookup(map, dateStr) = 0
  THEN Append(map, CallAnalytics(dateStr, 0, Zero, Zero, Zero))
  ELSE map

\* Variant: the average is accumulated on its own, as the mean of the previous
\* average and the new duration.
UpdateMetrics_RunningAvg(b, item) ==
  LET calls   == b.calls + 1
      minutes == RatAdd(b.minutes, DurationMinutes(item))
      cost    == RatAdd(b.cost, CallCost(item))
  IN  CallAnalytics(b.date, calls, minutes, cost,
                    RatDivInt(RatAdd(b.avgDuration, DurationMinutes(item)), 2))

\* Variant: the duration is taken off the bucket's minutes, `-=` for `+=`.
UpdateMetrics_Subtracts(b, item) ==
  LET calls   == b.calls + 1
      minutes == RatAdd(b.minutes, Rat(-DurationMinutes(item).num, DurationMinutes(item).den))
      cost    == RatAdd(b.cost, CallCost(item))
  IN  CallAnalytics(b.date, calls, minutes, cost, RatDivInt(minutes, calls))

\* The four assignments to analytics[dateStr] of one forEach iteration.
UpdateMetrics(b, item) ==
  LET calls   == b.calls + 1
      minutes == RatAdd(b.minutes, DurationMinutes(item))
      cost    == RatAdd(b.cost, CallCost(item))
  IN  CallAnalytics(b.date, calls, minutes, cost, RatDivInt(minutes, calls))

\* One iteration of callRecords.forEach.
ForEachBody(map, item) ==
  LET m == Initialize(map, DateStr(item))
      k == Lookup(m, DateStr(item))
  IN  [m EXCEPT ![k] = UpdateMetrics(m[k], item)]

\* Variant: the comparator with its operands swapped (newest first).
Compare_Descending(a, b) == DateTime(b.date) - DateTime(a.date)

\* (a, b) => new Date(a.date).getTime() - new Date(b.date).getTime()
Compare(a, b) == DateTime(a.date) - DateTime(b.date)

\* Array.prototype.sort(Compare): a stable sort, here by insertion.
RECURSIVE Insert(_, _)
Insert(sorted, b) ==
  IF sorted = <<>> THEN <<b>>
  ELSE IF Compare(b, sorted[Len(sorted)]) < 0
       THEN Append(Insert(SubSeq(sorted, 1, Len(sorted) - 1), b), sorted[Len(sorted)])
       ELSE Append(sorted, b)

RECURSIVE Sort(_)
Sort(s) ==
  IF s = <<>> THEN <<>>
  ELSE Insert(Sort(SubSeq(s, 1, Len(s) - 1)), s[Len(s)])

\* ------------------------------------------------- several invocations
Callers == 1..NumCalls

\* The locals of one invocation; `phase` as for the single invocation.
Call(ph, records, i, map, res) ==
  [phase |-> ph, callRecords |-> records, idx |-> i, analytics |-> map, result |-> res]

IdleCall == Call("idle", <<>>, 1, <<>>, <<>>)

CallsIdle == invocations = [c \in Callers |-> IdleCall]

\* The record lists handed to the invocations that run at once.
CallPool == {RecA1, RecTz}

CallLists == UNION {[1..n -> CallPool] : n \in 0..MaxCallRecords}

\* ------------------------------------------------------- formatDuration
FmtIdle == seconds = 0 /\ formatted = <<>>

\* A string is the sequence of its characters.
Digits == <<"0", "1", "2", "3", "4", "5", "6", "7", "8", "9">>

\* Number.prototype.toString / toFixed(0) of a non-negative integer.
RECURSIVE ToString(_)
ToString(n) ==
  IF n < 10 THEN <<Digits[n + 1]>>
  ELSE Append(ToString(n \div 10), Digits[(n % 10) + 1])

\* str.padStart(2, '0')
PadStart2(str) == IF Len(str) < 2 THEN <<"0">> \o str ELSE str

\* Variant: the minutes of the h:mm:ss form are not reduced modulo 60.
formatDuration_TotalMinutes(secs) ==
  IF secs < 60 THEN ToString(secs) \o <<" ", "s", "e", "c">>
  ELSE LET minutes == secs \div 60
           remainingSeconds == secs % 60
       IN  IF minutes < 60
           THEN ToString(minutes) \o <<":">> \o PadStart2(ToString(remainingSeconds))
           ELSE LET hours == minutes \div 60
                IN  ToString(hours) \o <<":">> \o PadStart2(ToString(minutes))
                      \o <<":">> \o PadStart2(ToString(remainingSeconds))

\* formatDuration(seconds) for a non-negative integer.
formatDuration(secs) ==
  IF secs < 60 THEN ToString(secs) \o <<" ", "s", "e", "c">>
  ELSE LET minutes == secs \div 60
           remainingSeconds == secs % 60
       IN  IF minutes < 60
           THEN ToString(minutes) \o <<":">> \o PadStart2(ToString(remainingSeconds))
           ELSE LET hours == minutes \div 60
                    remainingMinutes == minutes % 60
                IN  ToString(hours) \o <<":">> \o PadStart2(ToString(remainingMinutes))
                      \o <<":">> \o PadStart2(ToString(remainingSeconds))


\* ------------------------------------------------------------ Dashboard
\* The instants the clock shows, in seconds: 2024-01-01T23:30Z, which is
\* already 2 January for a viewer east of Greenwich, and a day later.
Clock == {DateTime(<<2024, 1, 1>>) + 3600 * h + 1800 : h \in {23, 47}}

Zone == ZoneHours * 3600

\* getFullYear(), getMonth() + 1, getDate(): the viewer's calendar day.
LocalDate(t) == CivilFromDays((t + Zone) \div SecondsPerDay)

\* new Date(y, m - 1, d, h, 0, 0): a wall-clock time of the viewer's zone.
NewLocalDate(ymd, h) ==
  DaysFromCivil(ymd[1], ymd[2], ymd[3]) * SecondsPerDay + h * 3600 - Zone

\* The values the time-range select can hand to its handler; "custom" stands
\* for any value the switch does not name.
TimeRanges == {"day", "week", "month", "quarter", "all", "custom"}

NoError == "null"

FailureMessage == "Failed to fetch data. Please check your Supabase credentials and connection."

\* Variant: the week starts seven days after now.
NewStartDate_Ahead(value, t) ==
  CASE value = "day" -> NewLocalDate(LocalDate(t), 0)
    [] value = "week" -> t + 7 * 24 * 60 * 60
    [] value = "month" -> t - 30 * 24 * 60 * 60
    [] value = "quarter" -> t - 90 * 24 * 60 * 60
    [] value = "all" -> NewLocalDate(<<2000, 1, 1>>, 0)
    [] OTHER -> t - 7 * 24 * 60 * 60

\* The switch of handleTimeRangeChange: newStartDate for a value, now being t.
NewStartDate(value, t) ==
  CASE value = "day" -> NewLocalDate(LocalDate(t), 0)
    [] value = "week" -> t - 7 * 24 * 60 * 60
    [] value = "month" -> t - 30 * 24 * 60 * 60
    [] value = "quarter" -> t - 90 * 24 * 60 * 60
    [] value = "all" -> NewLocalDate(<<2000, 1, 1>>, 0)
    [] OTHER -> t - 7 * 24 * 60 * 60

\* The record lists the backend answers the Dashboard's fetches with.
DashLists ==
  { <<>>, <<RecA1, RecA2, RecTz>>, <<RecTz, RecA1, RecA1, RecA1>>, <<RecA1, RecBad>> }

DashResponses == {Failed} \cup {Response("ok", FALSE, l) : l \in DashLists}

\* callRecords.forEach from item i on, over the map built so far.
RECURSIVE ForEach(_, _, _)
ForEach(map, records, i) ==
  IF i > Len(records) THEN map
  ELSE ForEach(ForEachBody(map, records[i]), records, i + 1)

\* Whether fetchCallAnalytics rejects on a response, and what it returns
\* when it does not.
FetchThrows(resp) ==
  \/ resp.status = "error"
  \/ \E i \in 1..Len(resp.records) : Throws(resp.records[i])

FetchReturns(resp) == Sort(ForEach(<<>>, IF resp.empty THEN <<>> ELSE resp.records, 1))

\* A fetch the effect started: its arguments, how it settled and with what.
PendingFetch(s, e) ==
  [startDate |-> s, endDate |-> e, status |-> "pending", response |-> Pending, data |-> <<>>]

\* x.toFixed(2) read back as a number: the nearest multiple of 1/100, a tie
\* going away from zero.
ToFixed2(x) ==
  LET n == (2 * 100 * Abs(x.num) + x.den) \div (2 * x.den)
  IN  Rat(IF x.num < 0 THEN -n ELSE n, 100)

RECURSIVE Reduce(_, _, _)
\* data.reduce((sum, item) => sum + item[field], init), sums being rationals
Reduce(data, field, init) ==
  IF data = <<>> THEN init
  ELSE Reduce(Tail(data), field, RatAdd(init, Head(data)[field]))

RECURSIVE ReduceCalls(_, _)
ReduceCalls(data, init) ==
  IF data = <<>> THEN init ELSE ReduceCalls(Tail(data), init + Head(data).calls)

\* Variant: the average shown is the mean of the buckets' averages.
Summary_MeanOfAverages(data) ==
  LET totalCalls   == ReduceCalls(data, 0)
      totalMinutes == Reduce(data, "minutes", Zero)
      totalCost    == Reduce(data, "cost", Zero)
  IN  [totalCalls |-> totalCalls, totalMinutes |-> totalMinutes, totalCost |-> totalCost,
       avgDuration |-> IF totalCalls > 0
                       THEN ToFixed2(RatDivInt(Reduce(data, "avgDuration", Zero), Len(data)))
                       ELSE Zero]

\* totalCalls, totalMinutes, totalCost and avgDuration of a render.
Summary(data) ==
  LET totalCalls   == ReduceCalls(data, 0)
      totalMinutes == Reduce(data, "minutes", Zero)
      totalCost    == Reduce(data, "cost", Zero)
  IN  [totalCalls |-> totalCalls, totalMinutes |-> totalMinutes, totalCost |-> totalCost,
       avgDuration |-> IF totalCalls > 0 THEN ToFixed2(RatDivInt(totalMinutes, totalCalls))
                       ELSE Zero]

\* Variant: the loop stops before 21:00, `hour < 21`.
RECURSIVE TimePoints_Exclusive(_, _)
TimePoints_Exclusive(ymd, hour) ==
  IF hour >= 21 THEN <<>>
  ELSE <<CallAnalytics(ToISOString(NewLocalDate(ymd, hour)), 0, Zero, Zero, Zero)>>
         \o TimePoints_Exclusive(ymd, hour + 3)

\* The loop of ensureChartData from `hour` on: a point every three hours of
\* the viewer's day ymd.
RECURSIVE TimePoints(_, _)
TimePoints(ymd, hour) ==
  IF hour > 21 THEN <<>>
  ELSE <<CallAnalytics(ToISOString(NewLocalDate(ymd, hour)), 0, Zero, Zero, Zero)>>
         \o TimePoints(ymd, hour + 3)

\* ensureChartData(data, dateRange), today being the day of instant t.
ensureChartData(data, dateRange, t) ==
  IF Len(data) = 0 /\ dateRange = "day" THEN TimePoints(LocalDate(t), 0) ELSE data

\* The charts are drawn only when the page is not loading.
Chart(data, dateRange, t, loading) ==
  IF loading THEN <<>> ELSE ensureChartData(data, dateRange, t)

\* The component before it is constructed.
DashIdle ==
  /\ now = 0
  /\ timeRange = "week"
  /\ analyticsData = <<>>
  /\ isLoading = TRUE
  /\ error = NoError
  /\ fetches = <<>>
  /\ summary = Summary(<<>>)
  /\ chartData = <<>>

\* ---------------------------------------------------------------- state
\* phase: where the one invocation of fetchCallAnalytics stands.
\*   "idle"        not called yet
\*   "awaiting"    the GET is in flight
\*   "aggregating" inside callRecords.forEach, before item idx
\*   "resolved"    returned `result`
\*   "rejected"    threw
AggLocalsIdle ==
  /\ phase = "idle"
  /\ request = [gte |-> ToISOString(0), lte |-> ToISOString(0)]
  /\ response = Pending
  /\ callRecords = <<>>
  /\ idx = 1
  /\ analytics = <<>>
  /\ result = <<>>

AggIdle ==
  /\ startDate = 0
  /\ endDate = 0
  /\ AggLocalsIdle

Init ==
  /\ AggIdle
  /\ CallsIdle
  /\ FmtIdle
  /\ DashIdle

\* A call fetchCallAnalytics(s, e): format the window and send the GET.
Fetch(s, e) ==
  /\ phase \in {"idle", "resolved", "rejected"}
  /\ phase' = "awaiting"
  /\ startDate' = s
  /\ endDate' = e
  /\ request' = [gte |-> ToISOString(s), lte |-> ToISOString(e)]
  /\ response' = Pending
  /\ callRecords' = <<>>
  /\ idx' = 1
  /\ analytics' = <<>>
  /\ result' = <<>>
  /\ UNCHANGED outsideAgg

\* Variant: callRecords = response.data without the `|| []`, so that forEach
\* on a missing list throws a TypeError.
GetResolves_NoDefault(data) ==
  /\ phase = "awaiting"
  /\ phase' = IF data.empty THEN "rejected" ELSE "aggregating"
  /\ response' = data
  /\ callRecords' = data.records
  /\ idx' = 1
  /\ analytics' = <<>>
  /\ UNCHANGED <<startDate, endDate, request, result>>
  /\ UNCHANGED outsideAgg

\* The GET resolves: callRecords = response.data || [], analytics = {}.
GetResolves(data) ==
  /\ phase = "awaiting"
  /\ phase' = "aggregating"
  /\ response' = data
  /\ callRecords' = IF data.empty THEN <<>> ELSE data.records
  /\ idx' = 1
  /\ analytics' = <<>>
  /\ UNCHANGED <<startDate, endDate, request, result>>
  /\ UNCHANGED outsideAgg

\* The GET rejects: the catch block logs and rethrows.
GetRejects ==
  /\ phase = "awaiting"
  /\ phase' = "rejected"
  /\ response' = Failed
  /\ UNCHANGED <<startDate, endDate, request, callRecords, idx, analytics, result>>
  /\ UNCHANGED outsideAgg

\* Variant: records created outside [startDate, endDate] are skipped.
ForEachItem_Windowed ==
  /\ phase = "aggregating"
  /\ idx <= Len(callRecords)
  /\ IF Throws(callRecords[idx])
     THEN /\ phase' = "rejected"
          /\ UNCHANGED <<idx, analytics>>
     ELSE /\ analytics' =
               IF NewDate(callRecords[idx].created_at) \in startDate..endDate
               THEN ForEachBody(analytics, callRecords[idx])
               ELSE analytics
          /\ idx' = idx + 1
          /\ UNCHANGED phase
  /\ UNCHANGED <<startDate, endDate, request, response, callRecords, result>>
  /\ UNCHANGED outsideAgg

\* Variant: a record whose created_at does not parse is skipped.
ForEachItem_SkipsInvalid ==
  /\ phase = "aggregating"
  /\ idx <= Len(callRecords)
  /\ analytics' = IF Throws(callRecords[idx]) THEN analytics
                  ELSE ForEachBody(analytics, callRecords[idx])
  /\ idx' = idx + 1
  /\ UNCHANGED <<phase, startDate, endDate, request, response, callRecords, result>>
  /\ UNCHANGED outsideAgg

\* forEach visits callRecords[idx].
ForEachItem ==
  /\ phase = "aggregating"
  /\ idx <= Len(callRecords)
  /\ IF Throws(callRecords[idx])
     THEN /\ phase' = "rejected"
          /\ UNCHANGED <<idx, analytics>>
     ELSE /\ analytics' = ForEachBody(analytics, callRecords[idx])
          /\ idx' = idx + 1
          /\ UNCHANGED phase
  /\ UNCHANGED <<startDate, endDate, request, response, callRecords, result>>
  /\ UNCHANGED outsideAgg

\* forEach is over: sort Object.values(analytics) and return it.
Return ==
  /\ phase = "aggregating"
  /\ idx > Len(callRecords)
  /\ result' = Sort(analytics)
  /\ phase' = "resolved"
  /\ UNCHANGED <<startDate, endDate, request, response, callRecords, idx, analytics>>
  /\ UNCHANGED outsideAgg

Next ==
  \/ \E w \in Windows : Fetch(w[1], w[2])
  \/ \E data \in ResponseData : GetResolves(data)
  \/ GetRejects
  \/ ForEachItem
  \/ Return

Spec == Init /\ [][Next]_vars

TypeOK ==
  /\ phase \in {"idle", "awaiting", "aggregating", "resolved", "rejected"}
  /\ idx \in 1..(Len(callRecords) + 1)
  /\ Len(callRecords) <= MaxRecords
  /\ response.status \in {"pending", "ok", "error"}

\* ------------------------------------- several invocations: the steps
\* Invocation c is called: the GET is sent.
CallFetch(c) ==
  /\ invocations[c].phase \in {"idle", "resolved", "rejected"}
  /\ invocations' = [invocations EXCEPT ![c] = Call("awaiting", <<>>, 1, <<>>, <<>>)]
  /\ UNCHANGED <<aggVars, fmtVars, dashVars>>

\* Variant: the accumulator is one map of the module, shared by all
\* invocations and never emptied: an invocation finds in it what another left.
CallGetResolves_SharedMap(c, data) ==
  /\ invocations[c].phase = "awaiting"
  /\ invocations' = [invocations EXCEPT ![c] =
        Call("aggregating", IF data.empty THEN <<>> ELSE data.records, 1,
             invocations[CHOOSE o \in Callers : o # c].analytics, <<>>)]
  /\ UNCHANGED <<aggVars, fmtVars, dashVars>>

\* The GET of invocation c resolves: its own callRecords and a fresh
\* analytics = {}.
CallGetResolves(c, data) ==
  /\ invocations[c].phase = "awaiting"
  /\ invocations' = [invocations EXCEPT ![c] =
        Call("aggregating", IF data.empty THEN <<>> ELSE data.records, 1, <<>>, <<>>)]
  /\ UNCHANGED <<aggVars, fmtVars, dashVars>>

\* The GET of invocation c rejects.
CallGetRejects(c) ==
  /\ invocations[c].phase = "awaiting"
  /\ invocations' = [invocations EXCEPT ![c].phase = "rejected"]
  /\ UNCHANGED <<aggVars, fmtVars, dashVars>>

\* forEach of invocation c visits its callRecords[idx].
CallForEachItem(c) ==
  LET me == invocations[c] IN
  /\ me.phase = "aggregating"
  /\ me.idx <= Len(me.callRecords)
  /\ invocations' = [invocations EXCEPT ![c] =
        IF Throws(me.callRecords[me.idx])
        THEN [me EXCEPT !.phase = "rejected"]
        ELSE [me EXCEPT !.analytics = ForEachBody(me.analytics, me.callRecords[me.idx]),
                        !.idx = me.idx + 1]]
  /\ UNCHANGED <<aggVars, fmtVars, dashVars>>

\* Invocation c sorts its entries and returns them.
CallReturn(c) ==
  LET me == invocations[c] IN
  /\ me.phase = "aggregating"
  /\ me.idx > Len(me.callRecords)
  /\ invocations' = [invocations EXCEPT ![c] =
        [me EXCEPT !.phase = "resolved", !.result = Sort(me.analytics)]]
  /\ UNCHANGED <<aggVars, fmtVars, dashVars>>

CallResponses ==
  {Response("ok", FALSE, l) : l \in CallLists} \cup {Response("ok", TRUE, <<>>)}

NextCalls ==
  \/ \E c \in Callers : CallFetch(c)
  \/ \E c \in Callers : \E data \in CallResponses : CallGetResolves(c, data)
  \/ \E c \in Callers : CallGetRejects(c)
  \/ \E c \in Callers : CallForEachItem(c)
  \/ \E c \in Callers : CallReturn(c)

SpecCalls == Init /\ [][NextCalls]_vars

\* ---------------------------------------------- formatDuration: the call
\* formatDuration is called with a number of seconds.
InitFmt ==
  /\ AggIdle
  /\ CallsIdle
  /\ DashIdle
  /\ seconds \in 0..MaxSeconds
  /\ formatted = <<>>

\* The call returns its string.
FormatDuration ==
  /\ formatted = <<>>
  /\ formatted' = formatDuration(seconds)
  /\ UNCHANGED <<seconds, aggVars, invocationVars, dashVars>>

NextFmt == FormatDuration

SpecFmt == InitFmt /\ [][NextFmt]_vars

\* ------------------------------------------------- Dashboard: the steps
\* The useState initialisers: the last seven days, loading, nothing fetched.
InitDash ==
  /\ now \in Clock
  /\ startDate = now - 7 * 24 * 60 * 60
  /\ endDate = now
  /\ timeRange = "week"
  /\ analyticsData = <<>>
  /\ isLoading = TRUE
  /\ error = NoError
  /\ fetches = <<>>
  /\ summary = Summary(<<>>)
  /\ chartData = <<>>
  /\ AggLocalsIdle
  /\ CallsIdle
  /\ FmtIdle

\* Every change of the state is followed by a render: the totals and the
\* chart data are computed again from the new state.
Render ==
  /\ summary' = Summary(analyticsData')
  /\ chartData' = Chart(analyticsData', timeRange', now', isLoading')

\* fetchData up to its await: loading, no error, a fetch for the window.
FetchData ==
  /\ isLoading' = TRUE
  /\ error' = NoError
  /\ fetches' = Append(fetches, PendingFetch(startDate', endDate'))

\* The effect runs after the first render.
Mount ==
  /\ fetches = <<>>
  /\ UNCHANGED <<now, startDate, endDate, timeRange, analyticsData>>
  /\ FetchData
  /\ Render
  /\ UNCHANGED <<aggLocals, invocationVars, fmtVars>>

\* handleTimeRangeChange(value), and the effect its new dates trigger.
HandleTimeRangeChange(value) ==
  /\ Len(fetches) \in 1..(MaxFetches - 1)
  /\ timeRange' = value
  /\ startDate' = NewStartDate(value, now)
  /\ endDate' = now
  /\ FetchData
  /\ UNCHANGED <<now, analyticsData>>
  /\ Render
  /\ UNCHANGED <<aggLocals, invocationVars, fmtVars>>

\* Time passes.
Tick ==
  /\ \E t \in Clock : t > now /\ now' = t
  /\ UNCHANGED <<startDate, endDate, timeRange, analyticsData, isLoading, error, fetches,
                 summary, chartData>>
  /\ UNCHANGED <<aggLocals, invocationVars, fmtVars>>

\* Variant: an empty result is reported as an error.
FetchFulfills_EmptyIsError(i, resp) ==
  /\ i \in 1..Len(fetches)
  /\ fetches[i].status = "pending"
  /\ ~FetchThrows(resp)
  /\ fetches' = [fetches EXCEPT ![i] =
        [@ EXCEPT !.status = "fulfilled", !.response = resp, !.data = FetchReturns(resp)]]
  /\ analyticsData' = FetchReturns(resp)
  /\ isLoading' = FALSE
  /\ error' = IF FetchReturns(resp) = <<>> THEN FailureMessage ELSE error
  /\ UNCHANGED <<now, startDate, endDate, timeRange>>
  /\ Render
  /\ UNCHANGED <<aggLocals, invocationVars, fmtVars>>

\* The await of fetch i returns data: setAnalyticsData(data), then the
\* finally block.
FetchFulfills(i, resp) ==
  /\ i \in 1..Len(fetches)
  /\ fetches[i].status = "pending"
  /\ ~FetchThrows(resp)
  /\ fetches' = [fetches EXCEPT ![i] =
        [@ EXCEPT !.status = "fulfilled", !.response = resp, !.data = FetchReturns(resp)]]
  /\ analyticsData' = FetchReturns(resp)
  /\ isLoading' = FALSE
  /\ UNCHANGED <<now, startDate, endDate, timeRange, error>>
  /\ Render
  /\ UNCHANGED <<aggLocals, invocationVars, fmtVars>>

\* The await of fetch i throws: the catch block, then the finally block.
FetchRejects(i, resp) ==
  /\ i \in 1..Len(fetches)
  /\ fetches[i].status = "pending"
  /\ FetchThrows(resp)
  /\ fetches' = [fetches EXCEPT ![i] = [@ EXCEPT !.status = "rejected", !.response = resp]]
  /\ error' = FailureMessage
  /\ isLoading' = FALSE
  /\ UNCHANGED <<now, startDate, endDate, timeRange, analyticsData>>
  /\ Render
  /\ UNCHANGED <<aggLocals, invocationVars, fmtVars>>

NextDash ==
  \/ Mount
  \/ \E value \in TimeRanges : HandleTimeRangeChange(value)
  \/ Tick
  \/ \E i \in 1..MaxFetches : \E resp \in DashResponses : FetchFulfills(i, resp)
  \/ \E i \in 1..MaxFetches : \E resp \in DashResponses : FetchRejects(i, resp)

SpecDash == InitDash /\ [][NextDash]_vars

\* ------------------------------------------------------------ properties
\* The UTC calendar day of a timestamp: its wall-clock date, moved one day
\* back or forth when removing the offset crosses midnight.
UtcDay(item) ==
  LET s == item.created_at
      h == s.hour - s.tz
      carry == IF h < 0 THEN -1 ELSE IF h > 23 THEN 1 ELSE 0
  IN  CivilFromDays(DaysFromCivil(s.date[1], s.date[2], s.date[3]) + carry)

\* The records of a list that fall on a UTC day, in list order.
OnDay(records, day) == SelectSeq(records, LAMBDA r : UtcDay(r) = day)

Days(records) == {UtcDay(records[i]) : i \in 1..Len(records)}

Dates(buckets) == {buckets[k].date : k \in 1..Len(buckets)}

RECURSIVE SumCalls(_)
SumCalls(buckets) ==
  IF buckets = <<>> THEN 0 ELSE Head(buckets).calls + SumCalls(Tail(buckets))

RECURSIVE SumMinutes(_)
SumMinutes(buckets) ==
  IF buckets = <<>> THEN Zero ELSE RatAdd(Head(buckets).minutes, SumMinutes(Tail(buckets)))

\* The sum of duration / 60 over a list of records.
RECURSIVE SumDurations(_)
SumDurations(records) ==
  IF records = <<>> THEN Zero
  ELSE RatAdd(Rat(Head(records).duration, 60), SumDurations(Tail(records)))

\* The sum of the costs of a list of records, a missing cost counting 0.
RECURSIVE SumCosts(_)
SumCosts(records) ==
  IF records = <<>> THEN Zero
  ELSE RatAdd(IF Head(records).cost.den = 0 THEN Zero ELSE Head(records).cost,
              SumCosts(Tail(records)))

\* YYYY-MM-DD strings compared as strings.
DateStrLess(a, b) ==
  \/ a[1] < b[1]
  \/ a[1] = b[1] /\ a[2] < b[2]
  \/ a[1] = b[1] /\ a[2] = b[2] /\ a[3] < b[3]

\* C1: when fetchCallAnalytics returns, the calls of the returned buckets
\* add up to the number of input records: none dropped, none counted twice.
C1_CallsPartition ==
  phase = "resolved" => SumCalls(result) = Len(callRecords)

C1_Witness ==
  /\ phase = "resolved"
  /\ Len(callRecords) >= 3
  /\ Len(result) = 2

\* C2: every input record falls into exactly one returned bucket, the one
\* dated with the UTC calendar day of its created_at; a bucket's calls is the
\* number of records of that UTC day and its minutes the sum of their
\* duration / 60.
C2_BucketOfUtcDay ==
  phase = "resolved" =>
    /\ \A i \in 1..Len(callRecords) :
         Cardinality({k \in 1..Len(result) : result[k].date = UtcDay(callRecords[i])}) = 1
    /\ \A k \in 1..Len(result) :
         /\ result[k].calls = Len(OnDay(callRecords, result[k].date))
         /\ result[k].minutes = SumDurations(OnDay(callRecords, result[k].date))

\* A record whose wall-clock date is not its UTC day was bucketed together
\* with another record.
C2_Witness ==
  /\ phase = "resolved"
  /\ \E i \in 1..Len(callRecords) :
       /\ UtcDay(callRecords[i]) # callRecords[i].created_at.date
       /\ \E k \in 1..Len(result) :
            result[k].date = UtcDay(callRecords[i]) /\ result[k].calls >= 2

\* C3: the returned buckets are strictly increasing by date, so no two share
\* a date, in whatever order the records arrived.
C3_StrictlyIncreasing ==
  phase = "resolved" =>
    \A k \in 1..(Len(result) - 1) : DateStrLess(result[k].date, result[k + 1].date)

\* Three days arrived out of chronological order.
C3_Witness ==
  /\ phase = "resolved"
  /\ Len(result) >= 3
  /\ analytics # result

\* C4: the dates of the returned buckets are exactly the distinct UTC days of
\* the input records (no gap filling), and every bucket has calls >= 1.
C4_SparseDays ==
  phase = "resolved" =>
    /\ Dates(result) = Days(callRecords)
    /\ Len(result) = Cardinality(Days(callRecords))
    /\ \A k \in 1..Len(result) : result[k].calls >= 1

\* Two buckets more than one day apart: the days between them have none.
C4_Witness ==
  /\ phase = "resolved"
  /\ Len(result) = 2
  /\ DateTime(result[2].date) - DateTime(result[1].date) > SecondsPerDay

\* C5: the minutes of the returned buckets add up to the sum of duration / 60
\* over all input records.
C5_MinutesConserved ==
  phase = "resolved" => SumMinutes(result) = SumDurations(callRecords)

\* Several buckets, and a duration that is no whole number of minutes.
C5_Witness ==
  /\ phase = "resolved"
  /\ Len(result) >= 2
  /\ \E i \in 1..Len(callRecords) : callRecords[i].duration % 60 # 0
  /\ SumMinutes(result) # Zero

\* avg = minutes / calls, stated without a division.
IsQuotient(avg, minutes, calls) ==
  /\ calls > 0
  /\ avg.den > 0
  /\ avg.num * minutes.den * calls = minutes.num * avg.den

\* C6: in every bucket of the accumulator map after each processed record,
\* and in every returned bucket, avgDuration is minutes / calls.
C6_DerivedAverage ==
  /\ \A k \in 1..Len(analytics) :
       IsQuotient(analytics[k].avgDuration, analytics[k].minutes, analytics[k].calls)
  /\ \A k \in 1..Len(result) :
       IsQuotient(result[k].avgDuration, result[k].minutes, result[k].calls)

\* In the middle of the loop, a bucket that has taken two records of
\* different durations.
C6_Witness ==
  /\ phase = "aggregating"
  /\ idx <= Len(callRecords)
  /\ \E k \in 1..Len(analytics) :
       /\ analytics[k].calls = 2
       /\ analytics[k].avgDuration.den = 2

\* C7: a returned bucket's cost is the sum of the costs of its records, a
\* record without a cost adding 0 while still counting in calls and minutes.
C7_CostSum ==
  phase = "resolved" =>
    /\ \A k \in 1..Len(result) :
         result[k].cost = SumCosts(OnDay(callRecords, result[k].date))
    /\ \A i \in 1..Len(callRecords) :
         callRecords[i].cost.den = 0 =>
           \E k \in 1..Len(result) :
             /\ result[k].date = UtcDay(callRecords[i])
             /\ result[k].calls = Len(OnDay(callRecords, result[k].date))
             /\ result[k].minutes = SumDurations(OnDay(callRecords, result[k].date))

\* A record without a cost shares its bucket with one that has a cost.
C7_Witness ==
  /\ phase = "resolved"
  /\ \E i \in 1..Len(callRecords) :
       /\ callRecords[i].cost.den = 0
       /\ \E k \in 1..Len(result) :
            /\ result[k].date = UtcDay(callRecords[i])
            /\ result[k].calls >= 2
            /\ result[k].cost # Zero

NoRecords == response.status = "ok" /\ (response.empty \/ response.records = <<>>)

\* C8: when the backend answers with an empty list or with no data at all,
\* the call does not throw, visits nothing and returns the empty list.
C8_EmptyInput ==
  NoRecords =>
    /\ phase \in {"aggregating", "resolved"}
    /\ callRecords = <<>>
    /\ analytics = <<>>
    /\ idx > Len(callRecords)
    /\ phase = "resolved" => result = <<>>

\* A response without data was aggregated and returned.
C8_Witness ==
  /\ phase = "resolved"
  /\ response.status = "ok"
  /\ response.empty
  /\ result = <<>>

\* The bucket of a UTC day, computed from all records of the list.
ExpectedBucket(records, day) ==
  LET on == OnDay(records, day)
      minutes == SumDurations(on)
  IN  CallAnalytics(day, Len(on), minutes, SumCosts(on),
                    Rat(minutes.num, minutes.den * Len(on)))

\* The elements of a set of date strings in increasing order.
InOrder(S) ==
  CHOOSE q \in [1..Cardinality(S) -> S] :
    \A i, j \in 1..Cardinality(S) : i < j => DateStrLess(q[i], q[j])

\* The buckets of a record list, a function of the records alone.
Aggregate(records) ==
  [k \in 1..Cardinality(Days(records)) |->
     ExpectedBucket(records, InOrder(Days(records))[k])]

\* The whole UTC day of the record lies outside [startDate, endDate].
OutsideWindow(item) ==
  \/ DateTime(UtcDay(item)) + SecondsPerDay <= startDate
  \/ DateTime(UtcDay(item)) > endDate

\* C9: the returned list is determined by the records alone, whatever the
\* window: a record outside [startDate, endDate] is bucketed like any other.
C9_WindowNotApplied ==
  phase = "resolved" =>
    /\ result = Aggregate(callRecords)
    /\ \A i \in 1..Len(callRecords) :
         OutsideWindow(callRecords[i]) => UtcDay(callRecords[i]) \in Dates(result)

\* Records before and after the window were returned with one inside it.
C9_Witness ==
  /\ phase = "resolved"
  /\ \E i, j, l \in 1..Len(callRecords) :
       /\ DateTime(UtcDay(callRecords[i])) + SecondsPerDay <= startDate
       /\ DateTime(UtcDay(callRecords[j])) > endDate
       /\ ~OutsideWindow(callRecords[l])
  /\ Len(result) = 3

ScenarioA == <<RecA1, RecA2, RecA3>>

\* C10: Scenario A returns 2024-01-01 (calls 2, minutes 5, cost 3.50,
\* avgDuration 2.5) followed by 2024-01-02 (calls 1, minutes 1, cost 0.50,
\* avgDuration 1), and nothing else.
C10_ScenarioA ==
  (phase = "resolved" /\ callRecords = ScenarioA) =>
    result = << CallAnalytics(<<2024, 1, 1>>, 2, Rat(5, 1), Rat(7, 2), Rat(5, 2)),
                CallAnalytics(<<2024, 1, 2>>, 1, Rat(1, 1), Rat(1, 2), Rat(1, 1)) >>

C10_Witness ==
  /\ phase = "resolved"
  /\ callRecords = ScenarioA
  /\ Len(result) = 2

NonNegative(b) ==
  /\ b.calls >= 0
  /\ b.minutes.num >= 0
  /\ b.cost.num >= 0
  /\ b.avgDuration.num >= 0

\* A record as the data model wants it: duration >= 0, cost missing or >= 0.
WellFormed(item) == item.duration >= 0 /\ item.cost.num >= 0

\* C11 as stated: every returned bucket has calls, minutes, cost and
\* avgDuration >= 0, whatever the records.
C11_NeverNegative ==
  phase = "resolved" => \A k \in 1..Len(result) : NonNegative(result[k])

\* C11 as amended: when every record has a non-negative duration and a
\* missing or non-negative cost, every returned bucket has calls, minutes,
\* cost and avgDuration >= 0; calls is >= 1 whatever the records.
C11_NonNegativeFromWellFormed ==
  phase = "resolved" =>
    /\ \A k \in 1..Len(result) : result[k].calls >= 1
    /\ (\A i \in 1..Len(callRecords) : WellFormed(callRecords[i]))
         => \A k \in 1..Len(result) : NonNegative(result[k])

\* Well-formed records with a positive duration were returned.
C11_Witness ==
  /\ phase = "resolved"
  /\ Len(callRecords) >= 2
  /\ \A i \in 1..Len(callRecords) : WellFormed(callRecords[i])
  /\ \E k \in 1..Len(result) : result[k].minutes.num > 0 /\ result[k].cost.num > 0

Unparseable(records) == \E i \in 1..Len(records) : records[i].created_at.garbage

\* C13: a fetched list with an unparseable created_at makes the call reject
\* with no bucket list, the buckets of the records before the bad one
\* included; the loop never gets past such a record and never returns.
C13_FailFast ==
  /\ phase = "resolved" => ~Unparseable(response.records)
  /\ phase = "aggregating" =>
       \A i \in 1..(idx - 1) : ~callRecords[i].created_at.garbage
  /\ (phase = "rejected" /\ response.status = "ok") =>
       /\ Unparseable(response.records)
       /\ callRecords[idx].created_at.garbage
       /\ result = <<>>

\* Rejected at a bad record after valid records had been put in buckets.
C13_Witness ==
  /\ phase = "rejected"
  /\ response.status = "ok"
  /\ idx >= 2
  /\ Len(analytics) >= 1
  /\ result = <<>>

\* C12: two invocations given the same record list return equal bucket
\* lists, whatever the other invocation did before or does meanwhile, and
\* each returns the buckets of its own records only.
C12_Deterministic ==
  /\ \A c, o \in Callers :
       (/\ invocations[c].phase = "resolved"
        /\ invocations[o].phase = "resolved"
        /\ invocations[c].callRecords = invocations[o].callRecords)
         => invocations[c].result = invocations[o].result
  /\ \A c \in Callers :
       invocations[c].phase = "resolved" =>
         SumCalls(invocations[c].result) = Len(invocations[c].callRecords)

\* Two invocations returned the same two buckets for the same two records.
C12_Witness ==
  \E c, o \in Callers :
    /\ c # o
    /\ invocations[c].phase = "resolved"
    /\ invocations[o].phase = "resolved"
    /\ Len(invocations[c].callRecords) = 2
    /\ invocations[c].callRecords = invocations[o].callRecords
    /\ Len(invocations[c].result) = 2
    /\ invocations[c].result = invocations[o].result

\* The number a string of decimal digits spells.
RECURSIVE ParseInt(_)
ParseInt(str) ==
  IF str = <<>> THEN 0
  ELSE 10 * ParseInt(SubSeq(str, 1, Len(str) - 1))
         + (CHOOSE d \in 0..9 : Digits[d + 1] = str[Len(str)])

IsNumber(str) ==
  /\ Len(str) >= 1
  /\ \A k \in 1..Len(str) : \E d \in 0..9 : Digits[d + 1] = str[k]
  /\ Len(str) > 1 => str[1] # "0"

IsTwoDigits(str) ==
  /\ Len(str) = 2
  /\ \A k \in 1..2 : \E d \in 0..9 : Digits[d + 1] = str[k]

\* The positions of the colons of a string.
Colons(str) == {k \in 1..Len(str) : str[k] = ":"}

\* C20: below 60 the string is "N sec"; from 60 to 3599 it is m:ss with
\* m*60 + ss the input; from 3600 on it is h:mm:ss with h*3600 + mm*60 + ss
\* the input; mm and ss have two digits and are below 60.
C20_LosslessDuration ==
  formatted # <<>> =>
    LET n == Len(formatted) IN
    IF seconds < 60
    THEN /\ n >= 5
         /\ SubSeq(formatted, n - 3, n) = <<" ", "s", "e", "c">>
         /\ IsNumber(SubSeq(formatted, 1, n - 4))
         /\ ParseInt(SubSeq(formatted, 1, n - 4)) = seconds
    ELSE IF seconds < 3600
    THEN /\ Colons(formatted) = {n - 2}
         /\ IsNumber(SubSeq(formatted, 1, n - 3))
         /\ IsTwoDigits(SubSeq(formatted, n - 1, n))
         /\ ParseInt(SubSeq(formatted, n - 1, n)) < 60
         /\ ParseInt(SubSeq(formatted, 1, n - 3)) * 60
              + ParseInt(SubSeq(formatted, n - 1, n)) = seconds
    ELSE /\ Colons(formatted) = {n - 5, n - 2}
         /\ IsNumber(SubSeq(formatted, 1, n - 6))
         /\ IsTwoDigits(SubSeq(formatted, n - 4, n - 3))
         /\ IsTwoDigits(SubSeq(formatted, n - 1, n))
         /\ ParseInt(SubSeq(formatted, n - 4, n - 3)) < 60
         /\ ParseInt(SubSeq(formatted, n - 1, n)) < 60
         /\ ParseInt(SubSeq(formatted, 1, n - 6)) * 3600
              + ParseInt(SubSeq(formatted, n - 4, n - 3)) * 60
              + ParseInt(SubSeq(formatted, n - 1, n)) = seconds

\* 3725 seconds came out as 1:02:05.
C20_Witness ==
  /\ seconds = 3725
  /\ formatted = <<"1", ":", "0", "2", ":", "0", "5">>

\* ------------------------------------------------- Dashboard properties
Settled(f) == f.status # "pending"

\* Fetch i settles in this step, with the given status.
Settles(i, status) ==
  /\ i \in 1..Len(fetches)
  /\ fetches[i].status = "pending"
  /\ fetches'[i].status = status

C15_LatestWins ==
  (/\ Len(fetches) >= 1
   /\ \A i \in 1..Len(fetches) : fetches[i].status = "fulfilled")
    => analyticsData = fetches[Len(fetches)].data

\* C16: isLoading holds while a started fetch is pending, and does not once
\* all started fetches have settled.
C16_LoadingWhilePending ==
  /\ (\E i \in 1..Len(fetches) : ~Settled(fetches[i])) => isLoading
  /\ (Len(fetches) >= 1 /\ \A i \in 1..Len(fetches) : Settled(fetches[i])) => ~isLoading

\* The start of the window a selection asks for, now being t.
ExpectedStart(value, t, s) ==
  CASE value = "day" -> s <= t /\ t - s < SecondsPerDay /\ (s + Zone) % SecondsPerDay = 0
    [] value = "week" -> s = t - 604800
    [] value = "month" -> s = t - 2592000
    [] value = "quarter" -> s = t - 7776000
    [] value = "all" -> ToISOString(s + Zone) = [date |-> <<2000, 1, 1>>, time |-> 0]
    [] OTHER -> s = t - 604800

\* C17: startDate <= endDate at all times, and a time-range selection sets
\* endDate to now and startDate to the start its value stands for.
C17_WindowOrdered ==
  /\ [](startDate <= endDate)
  /\ [][ (Len(fetches) >= 1 /\ Len(fetches') > Len(fetches)) =>
           /\ endDate' = now
           /\ ExpectedStart(timeRange', now, startDate')
           /\ startDate' <= endDate' ]_vars

\* 'day' was selected half an hour or more after the viewer's midnight.
C17_Witness ==
  /\ timeRange = "day"
  /\ Len(fetches) = 2
  /\ startDate < endDate
  /\ endDate - startDate < SecondsPerDay

RECURSIVE SumBucketCosts(_)
SumBucketCosts(buckets) ==
  IF buckets = <<>> THEN Zero ELSE RatAdd(Head(buckets).cost, SumBucketCosts(Tail(buckets)))

\* r is x rounded to two decimals: a multiple of 1/100 at most 1/200 from x.
IsRounded2(r, x) ==
  /\ r.den > 0
  /\ 100 % r.den = 0
  /\ 200 * Abs(r.num * x.den - x.num * r.den) <= r.den * x.den

\* C18: the totals shown are the sums of calls, minutes and cost over
\* analyticsData; totalCalls is the number of records of the fetch that
\* delivered analyticsData; avgDuration is totalMinutes / totalCalls rounded to
\* two decimals, or 0 without calls; with placeholder points in the charts
\* the totals are those of the empty list.
C18_SummaryTiles ==
  /\ summary.totalCalls = SumCalls(analyticsData)
  /\ summary.totalMinutes = SumMinutes(analyticsData)
  /\ summary.totalCost = SumBucketCosts(analyticsData)
  /\ \A i \in 1..Len(fetches) :
       (fetches[i].status = "fulfilled" /\ fetches[i].data = analyticsData)
         => summary.totalCalls = Len(fetches[i].response.records)
  /\ IF summary.totalCalls > 0
     THEN IsRounded2(summary.avgDuration,
                     Rat(summary.totalMinutes.num, summary.totalMinutes.den * summary.totalCalls))
     ELSE summary.avgDuration = Zero
  /\ Len(chartData) > Len(analyticsData) =>
       summary = [totalCalls |-> 0, totalMinutes |-> Zero, totalCost |-> Zero,
                  avgDuration |-> Zero]

\* Three records in two buckets: 5.5 minutes over 3 calls show as 1.83.
C18_Witness ==
  /\ Len(analyticsData) = 2
  /\ summary.totalCalls = 3
  /\ summary.totalMinutes = Rat(11, 2)
  /\ summary.avgDuration = Rat(183, 100)

\* The instant an ISO string spells.
IsoInstant(iso) == DateTime(iso.date) + iso.time

\* C19: what a render hands to the charts is analyticsData itself unless it
\* is empty and the range is 'day'; then it is 8 points, the k-th at hour
\* 3(k-1) of the viewer's today, with calls, minutes, cost and avgDuration 0.
C19_ChartData ==
  [][ (now' = now /\ ~isLoading') =>
        IF analyticsData' # <<>> \/ timeRange' # "day"
        THEN chartData' = analyticsData'
        ELSE /\ Len(chartData') = 8
             /\ \A k \in 1..8 :
                  LET p == chartData'[k]
                      local == IsoInstant(p.date) + Zone
                  IN  /\ local % SecondsPerDay = 3 * (k - 1) * 3600
                      /\ local \div SecondsPerDay = (now + Zone) \div SecondsPerDay
                      /\ p.calls = 0
                      /\ p.minutes = Zero
                      /\ p.cost = Zero
                      /\ p.avgDuration = Zero ]_vars

\* An empty day was drawn with its eight placeholder points.
C19_Witness ==
  /\ ~isLoading
  /\ timeRange = "day"
  /\ analyticsData = <<>>
  /\ Len(chartData) = 8

====
